---- MODULE Spec2Model ----
(***************************************************************************)
(* State-machine model of src/src/App.vue: the St. Paul crime map client.  *)
(* Every action is one synchronous run of a handler between two network    *)
(* round-trips (JavaScript runs a handler to its next await without        *)
(* interleaving), so every state of the model is a state at rest or at an  *)
(* await point.  Coordinates are degrees scaled by 10^6.                   *)
(***************************************************************************)
EXTENDS Integers, Sequences, FiniteSets, TLC

(***************************************************************************)
(* Bounds of the model.                                                    *)
(***************************************************************************)
\* network round-trips outstanding at once (all endpoints together)
MaxInFlight == 2
\* records in the /neighborhoods response
MaxNeighborhoods == 2
\* user events (clicks, pans) in one session
MaxEvents == 4

\* entries in a /codes answer, where the answer is any list
MaxCodes == 3

(***************************************************************************)
(* Program constants.                                                      *)
(***************************************************************************)
BoundsNwLat == 45008206
BoundsNwLng == -93217977
BoundsSeLat == 44883658
BoundsSeLng == -92993787
CenterLat == 44955139
CenterLng == -93102222
DefaultMaxIncidents == 1000

neighborhoodMarkerCoords ==
    << <<44942068, -93020521>>, <<44977413, -93025156>>, <<44931244, -93079578>>,
       <<44956192, -93060189>>, <<44978883, -93068163>>, <<44975766, -93113887>>,
       <<44959639, -93121271>>, <<44947700, -93128505>>, <<44930276, -93119911>>,
       <<44982752, -93147910>>, <<44963631, -93167548>>, <<44973971, -93197965>>,
       <<44949043, -93178261>>, <<44934848, -93176736>>, <<44913106, -93170779>>,
       <<44937705, -93136997>>, <<44949203, -93093739>> >>

\* null of selectedCaseNumber
Null == "null"
\* null of selectedIncidentMarker; a marker m on the map is <<m>>
NoMarker == <<>>

(***************************************************************************)
(* Strings: TLA+ strings are sequences of characters; Len, \o and SubSeq   *)
(* apply to them.                                                          *)
(***************************************************************************)
Min2(a, b) == IF a < b THEN a ELSE b
Max2(a, b) == IF a > b THEN a ELSE b

UpperChars == "ABCDEFGHIJKLMNOPQRSTUVWXYZ"
LowerChars == "abcdefghijklmnopqrstuvwxyz"

CharAt(s, i) == SubSeq(s, i, i)

\* String.prototype.toLowerCase on one character
LowerChar(c) ==
    IF \E i \in 1..26 : CharAt(UpperChars, i) = c
    THEN CharAt(LowerChars, CHOOSE i \in 1..26 : CharAt(UpperChars, i) = c)
    ELSE c

RECURSIVE ToLowerCase(_)
ToLowerCase(s) ==
    IF s = "" THEN "" ELSE LowerChar(CharAt(s, 1)) \o ToLowerCase(SubSeq(s, 2, Len(s)))

\* String.prototype.includes
Includes(text, k) ==
    \E i \in 1..(Len(text) - Len(k) + 1) : SubSeq(text, i, i + Len(k) - 1) = k

RECURSIVE TrimStart(_)
TrimStart(s) ==
    IF s # "" /\ CharAt(s, 1) = " " THEN TrimStart(SubSeq(s, 2, Len(s))) ELSE s

RECURSIVE TrimEnd(_)
TrimEnd(s) ==
    IF s # "" /\ CharAt(s, Len(s)) = " " THEN TrimEnd(SubSeq(s, 1, Len(s) - 1)) ELSE s

\* String.prototype.trim (spaces are the only whitespace of the inputs)
Trim(s) == TrimEnd(TrimStart(s))

\* trimmed.replace(/\/+$/, '')
RECURSIVE StripTrailingSlashes(_)
StripTrailingSlashes(s) ==
    IF s # "" /\ CharAt(s, Len(s)) = "/"
    THEN StripTrailingSlashes(SubSeq(s, 1, Len(s) - 1))
    ELSE s

Digits == "0123456789"

\* length of the match of /^\d+/
RECURSIVE DigitsPrefixLen(_)
DigitsPrefixLen(s) ==
    IF s # "" /\ (\E i \in 1..10 : CharAt(Digits, i) = CharAt(s, 1))
    THEN 1 + DigitsPrefixLen(SubSeq(s, 2, Len(s)))
    ELSE 0

\* rank of a letter in the collation order (case ignored), 0 for other characters
LetterRank(c) ==
    LET l == LowerChar(c)
    IN  IF \E i \in 1..26 : CharAt(LowerChars, i) = l
        THEN CHOOSE i \in 1..26 : CharAt(LowerChars, i) = l
        ELSE 0

\* a.localeCompare(b) < 0 for words of letters: letters compared ignoring case,
\* a proper prefix first
RECURSIVE LocaleLess(_, _)
LocaleLess(a, b) ==
    IF b = "" THEN FALSE
    ELSE IF a = "" THEN TRUE
    ELSE IF LetterRank(CharAt(a, 1)) # LetterRank(CharAt(b, 1))
         THEN LetterRank(CharAt(a, 1)) < LetterRank(CharAt(b, 1))
         ELSE LocaleLess(SubSeq(a, 2, Len(a)), SubSeq(b, 2, Len(b)))

(***************************************************************************)
(* Sequences.                                                              *)
(***************************************************************************)

\* s.filter(x => keep has x)
RECURSIVE SelectSeqBy(_, _)
SelectSeqBy(s, keep) ==
    IF s = <<>> THEN <<>>
    ELSE (IF Head(s) \in keep THEN <<Head(s)>> ELSE <<>>) \o SelectSeqBy(Tail(s), keep)

Range(s) == {s[i] : i \in 1..Len(s)}

RemoveAt(s, i) == SubSeq(s, 1, i - 1) \o SubSeq(s, i + 1, Len(s))

\* ascending numeric sort of a set: Array.from(set).sort((a, b) => a - b)
RECURSIVE SortedSeqOf(_)
SortedSeqOf(S) ==
    IF S = {} THEN <<>>
    ELSE LET m == CHOOSE x \in S : \A y \in S : x <= y
         IN  <<m>> \o SortedSeqOf(S \ {m})

(***************************************************************************)
(* What the collaborators can answer: the REST backend, the geocoding      *)
(* service, the user.                                                      *)
(***************************************************************************)
\* GET /codes
CodesResponses ==
    { << [code |-> 600, type |-> "Theft"], [code |-> 300, type |-> "Theft"] >> }

\* entries a /codes answer can list: a code under one type, under two types, other codes
CodeEntries ==
    { [code |-> 300, type |-> "Theft"], [code |-> 600, type |-> "Theft"],
      [code |-> 600, type |-> "Assault"], [code |-> 110, type |-> "Assault"],
      [code |-> 700, type |-> "Narcotics"] }

RECURSIVE SeqsUpTo(_, _)
SeqsUpTo(S, n) ==
    IF n = 0 THEN {<<>>}
    ELSE SeqsUpTo(S, n - 1) \cup {Append(t, x) : t \in SeqsUpTo(S, n - 1), x \in S}

\* GET /codes, any list of at most MaxCodes entries
CodeLists == SeqsUpTo(CodeEntries, MaxCodes)

NeighborhoodRecords ==
    << [id |-> 1, name |-> "Conway"], [id |-> 2, name |-> "Greater East Side"],
       [id |-> 3, name |-> "West Side"], [id |-> 4, name |-> "Dayton's Bluff"] >>

\* GET /neighborhoods
NeighborhoodsResponses ==
    {SubSeq(NeighborhoodRecords, 1, k) : k \in 0..Min2(MaxNeighborhoods, Len(NeighborhoodRecords))}

Row(case, code, text, nbhd, block) ==
    [case_number |-> case, date |-> "2024-01-05", time |-> "12:30:00", code |-> code,
     incident |-> text, police_grid |-> 87, neighborhood_number |-> nbhd, block |-> block]

BackendRows ==
    << Row("24-001", 600, "THEFT", 2, "98X UNIVERSITY AV W"),
       Row("24-002", 999, "Aggravated Robbery", 2, "") >>

\* GET /incidents: the backend answers its newest rows, all of them or none
IncidentsResponses ==
    {SubSeq(BackendRows, k, Len(BackendRows)) : k \in 1..Len(BackendRows) + 1}

\* body text of a non-success response
ErrorBodies == {"", "database is locked"}

\* the geocoding service's answers to /search: no match, or one coordinate
GeocodeResults == { <<44955900, -93300000>> }

\* map.leaflet.getBounds() after a pan or zoom: the start view (all markers),
\* a view holding only the first marker, a view holding none (centred on the west
\* edge of the bounding box)
StartView == [north |-> 45015139, south |-> 44895139, west |-> -93239222, east |-> -92965222]
LeafletViews ==
    { StartView,
      [north |-> 44950000, south |-> 44935000, west |-> -93030000, east |-> -93010000],
      [north |-> 44960900, south |-> 44950900, west |-> -93222977, east |-> -93212977] }

\* what the user can have typed into the URL dialog, with input.checkValidity()
CrimeUrlInputs ==
    { [value |-> "", valid |-> TRUE],
      [value |-> "localhost", valid |-> FALSE],
      [value |-> "http://localhost:8000/", valid |-> TRUE] }

(***************************************************************************)
(* Pure functions of the program.                                          *)
(***************************************************************************)
\* only the latitude is clamped
clampLatitudeOnly(lat, lng) ==
    [lat |-> Min2(Max2(lat, BoundsSeLat), BoundsNwLat), lng |-> lng]

clampLatLng(lat, lng) ==
    LET minLat == BoundsSeLat
        maxLat == BoundsNwLat
        minLng == BoundsNwLng
        maxLng == BoundsSeLng
    IN  [lat |-> Min2(Max2(lat, minLat), maxLat), lng |-> Min2(Max2(lng, minLng), maxLng)]

violentKeywords ==
    << "murder", "manslaughter", "rape", "robbery", "assault", "kidnap", "homicide",
       "weapon", "threat", "domestic" >>

propertyKeywords ==
    << "burglary", "theft", "robbery", "arson", "vandalism", "damage to property",
       "property", "motor vehicle theft", "shoplifting", "stolen", "fraud", "forgery" >>

\* the property keywords are looked for first
categorizeCrimePropertyFirst(incidentType, incidentText) ==
    LET text == ToLowerCase(incidentType \o " " \o incidentText)
    IN  IF \E i \in 1..Len(propertyKeywords) : Includes(text, propertyKeywords[i])
        THEN "property"
        ELSE IF \E i \in 1..Len(violentKeywords) : Includes(text, violentKeywords[i])
        THEN "violent"
        ELSE "other"

categorizeCrime(incidentType, incidentText) ==
    LET text == ToLowerCase(incidentType \o " " \o incidentText)
    IN  IF \E i \in 1..Len(violentKeywords) : Includes(text, violentKeywords[i])
        THEN "violent"
        ELSE IF \E i \in 1..Len(propertyKeywords) : Includes(text, propertyKeywords[i])
        THEN "property"
        ELSE "other"

\* loadCodes: the Map of groups in first-occurrence order of the types
RECURSIVE GroupsMap(_, _)
GroupsMap(data, acc) ==
    IF data = <<>> THEN acc
    ELSE LET c == Head(data)
             at == {i \in 1..Len(acc) : acc[i].type = c.type}
         IN  IF at = {}
             THEN GroupsMap(Tail(data),
                     Append(acc, [type |-> c.type, codes |-> <<c.code>>, selected |-> TRUE]))
             ELSE LET i == CHOOSE j \in at : TRUE
                  IN  GroupsMap(Tail(data),
                         [acc EXCEPT ![i].codes = Append(acc[i].codes, c.code)])

\* Array.prototype.sort with the localeCompare comparator (a stable sort)
RECURSIVE InsertGroup(_, _)
InsertGroup(sorted, g) ==
    IF sorted = <<>> THEN <<g>>
    ELSE IF LocaleLess(g.type, Head(sorted).type) THEN <<g>> \o sorted
    ELSE <<Head(sorted)>> \o InsertGroup(Tail(sorted), g)

RECURSIVE SortGroups(_, _)
SortGroups(groups, acc) ==
    IF groups = <<>> THEN acc ELSE SortGroups(Tail(groups), InsertGroup(acc, Head(groups)))

BuildTypeGroups(data) == SortGroups(GroupsMap(data, <<>>), <<>>)

\* loadNeighborhoods: data.map((n, idx) => ...)
BuildNeighborhoods(data) ==
    [idx \in 1..Len(data) |->
        LET coords == IF idx <= Len(neighborhoodMarkerCoords)
                      THEN neighborhoodMarkerCoords[idx]
                      ELSE <<CenterLat, CenterLng>>
        IN  [id |-> data[idx].id, name |-> data[idx].name, lat |-> coords[1],
             lng |-> coords[2], crimes |-> 0, selected |-> TRUE]]

\* updateVisibleNeighborhoods: the new visibleNeighborhoodIds
VisibleIn(nbhds, bounds, visible) ==
    IF nbhds = <<>> THEN visible
    ELSE LET keep == {i \in 1..Len(nbhds) :
                        /\ nbhds[i].lat <= bounds.north /\ nbhds[i].lat >= bounds.south
                        /\ nbhds[i].lng >= bounds.west /\ nbhds[i].lng <= bounds.east}
         IN  [k \in 1..Cardinality(keep) |->
                nbhds[CHOOSE i \in keep : Cardinality({j \in keep : j < i}) = k - 1].id]

\* number of incidents counted for neighborhood id
CountFor(incs, id) == Cardinality({i \in 1..Len(incs) : incs[i].neighborhood_number = id})

\* the counts saturate at one
updateCountsSaturating(nbhds, incs) ==
    [i \in 1..Len(nbhds) |->
        [nbhds[i] EXCEPT !.crimes = IF CountFor(incs, nbhds[i].id) > 0 THEN 1 ELSE 0]]

updateNeighborhoodCountsFromIncidents(nbhds, incs) ==
    [i \in 1..Len(nbhds) |-> [nbhds[i] EXCEPT !.crimes = CountFor(incs, nbhds[i].id)]]

\* codeToType.get(code) || 'Unknown': a later entry of codes overwrites an earlier one
CodeToType(cs, code) ==
    LET at == {i \in 1..Len(cs) : cs[i].code = code}
    IN  IF at = {} THEN "Unknown"
        ELSE LET t == cs[CHOOSE i \in at : \A j \in at : j <= i].type
             IN  IF t = "" THEN "Unknown" ELSE t

NeighborhoodName(nbhds, id) ==
    LET at == {i \in 1..Len(nbhds) : nbhds[i].id = id}
    IN  IF at = {} THEN "Unknown"
        ELSE LET n == nbhds[CHOOSE i \in at : \A j \in at : j <= i].name
             IN  IF n = "" THEN "Unknown" ELSE n

\* the incident types and incident texts a loaded row can carry
IncidentTypes ==
    UNION {{cs[i].type : i \in 1..Len(cs)} : cs \in CodesResponses} \cup {"Unknown"}

IncidentTexts == {BackendRows[i].incident : i \in 1..Len(BackendRows)}

\* categorizeCrime(incident_type, row.incident), tabulated over those arguments
Categories ==
    [t \in IncidentTypes |-> [x \in IncidentTexts |-> categorizeCrime(t, x)]]

\* data.map((row) => ({...row, incident_type, neighborhood_name, category}))
Enrich(data, cs, nbhds) ==
    [i \in 1..Len(data) |->
        LET incident_type == CodeToType(cs, data[i].code)
        IN  [case_number |-> data[i].case_number, date |-> data[i].date,
             time |-> data[i].time, code |-> data[i].code, incident |-> data[i].incident,
             police_grid |-> data[i].police_grid,
             neighborhood_number |-> data[i].neighborhood_number, block |-> data[i].block,
             incident_type |-> incident_type,
             neighborhood_name |-> NeighborhoodName(nbhds, data[i].neighborhood_number),
             category |-> Categories[incident_type][data[i].incident]]]

(***************************************************************************)
(* fetchIncidents, up to its await.                                        *)
(***************************************************************************)
\* union of the codes of the selected groups, sorted ascending; empty when no group is
\* selected
selectedCodes(groups) ==
    LET selectedTypes == {groups[i].type : i \in {j \in 1..Len(groups) : groups[j].selected}}
        codeSet == UNION {Range(groups[i].codes) :
                             i \in {j \in 1..Len(groups) : groups[j].type \in selectedTypes}}
    IN  IF selectedTypes = {} THEN <<>> ELSE SortedSeqOf(codeSet)

AllIds(nbhds) == [i \in 1..Len(nbhds) |-> nbhds[i].id]

selectedNeighborhoodIds(nbhds) ==
    LET keep == {i \in 1..Len(nbhds) : nbhds[i].selected}
    IN  [k \in 1..Cardinality(keep) |->
            nbhds[CHOOSE i \in keep : Cardinality({j \in keep : j < i}) = k - 1].id]

\* no fallback: an empty selection stays empty
baseSelectedOnly(nbhds) == selectedNeighborhoodIds(nbhds)

baseNeighborhoodIds(nbhds) ==
    IF Len(selectedNeighborhoodIds(nbhds)) > 0
    THEN selectedNeighborhoodIds(nbhds)
    ELSE AllIds(nbhds)

inViewIds(base, visible) ==
    IF Len(visible) > 0 THEN SelectSeqBy(base, Range(visible)) ELSE base

\* the URLSearchParams of the request: a parameter that is not set is no field
IncidentsParams(codeList, ids) ==
    IF Len(codeList) > 0
    THEN [limit |-> DefaultMaxIncidents, code |-> codeList, neighborhood |-> ids]
    ELSE [limit |-> DefaultMaxIncidents, neighborhood |-> ids]

NoFetch == [called |-> FALSE, ran |-> FALSE]

\* the short-circuit keeps the loading flag set
ShortCircuitStillLoading(nbhds, info) ==
    [incidents |-> <<>>, neighborhoods |-> updateNeighborhoodCountsFromIncidents(nbhds, <<>>),
     isLoadingCrimes |-> TRUE, loadError |-> "", requests |-> <<>>, info |-> info]

\* if (inViewIds.length === 0) { ... return; } and the finally
ShortCircuit(nbhds, info) ==
    [incidents |-> <<>>, neighborhoods |-> updateNeighborhoodCountsFromIncidents(nbhds, <<>>),
     isLoadingCrimes |-> FALSE, loadError |-> "", requests |-> <<>>, info |-> info]

\* One call of fetchIncidents on the given state, run to its first await or to its
\* return: the new values of what it writes, the request it issues (none, or one)
\* and, in info, the values of its locals.
fetchIncidents(url, groups, nbhds, visible, incs, loading, err) ==
    IF url = ""
    THEN [incidents |-> incs, neighborhoods |-> nbhds, isLoadingCrimes |-> loading,
          loadError |-> err, requests |-> <<>>,
          info |-> [called |-> TRUE, ran |-> FALSE]]
    ELSE LET base == baseNeighborhoodIds(nbhds)
             inView == inViewIds(base, visible)
             info == [called |-> TRUE, ran |-> TRUE,
                      selected |-> selectedNeighborhoodIds(nbhds), visible |-> visible,
                      base |-> base, inView |-> inView,
                      groupsSelected |-> \E i \in 1..Len(groups) : groups[i].selected,
                      issued |-> Len(inView) > 0]
         IN  IF Len(inView) = 0
             THEN ShortCircuit(nbhds, info)
             ELSE [incidents |-> incs, neighborhoods |-> nbhds, isLoadingCrimes |-> TRUE,
                   loadError |-> "",
                   requests |-> << [params |-> IncidentsParams(selectedCodes(groups), inView),
                                    overtaken |-> FALSE] >>,
                   info |-> info]

(***************************************************************************)
(* State.                                                                  *)
(***************************************************************************)
VARIABLES
    dialogOpen,             \* the REST URL dialog is open
    dialog_err,
    baseApiUrl,
    initPc,                 \* initializeCrimes: "idle", awaiting "codes" or
                            \* "neighborhoods", "done" or "failed"
    codes,
    incidentTypeGroups,
    neighborhoods,
    incidents,
    visibleNeighborhoodIds,
    isLoadingCrimes,
    loadError,
    newIncidentError,
    newIncidentSuccess,
    selectedCaseNumber,
    selectedIncidentMarker, \* NoMarker, or the marker's position and its popup's case
    geocodeCache,           \* block -> clamped coordinate, for the cached blocks
    leafletBounds,          \* map.leaflet.getBounds()
    incidentReqs,           \* /incidents requests awaiting a response, oldest first,
                            \* each with: a request issued later was answered first
    putReqs,                \* PUT /new-incident payloads awaiting a response
    deleteReqs,             \* DELETE /remove-incident case numbers awaiting a response
    geocodeReqs,            \* selectIncident calls awaiting geocodeBlock
    pendingMoves,           \* handleMapMoveEnd calls awaiting the reverse geocode
    events,                 \* user events so far
    last,                   \* the handler step taken last: its name, its argument,
                            \* the alert it raised, the locals of its fetchIncidents
    call                    \* a function of the program called on its own: its name,
                            \* its arguments and, once it has returned, its result

vars ==
    << dialogOpen, dialog_err, baseApiUrl, initPc, codes, incidentTypeGroups,
       neighborhoods, incidents, visibleNeighborhoodIds, isLoadingCrimes, loadError,
       newIncidentError, newIncidentSuccess, selectedCaseNumber, selectedIncidentMarker,
       geocodeCache, leafletBounds, incidentReqs, putReqs, deleteReqs, geocodeReqs,
       pendingMoves, events, last, call >>

refVars == << codes, incidentTypeGroups >>
formVars == << newIncidentError, newIncidentSuccess >>
selVars == << selectedCaseNumber, selectedIncidentMarker, geocodeCache >>
dialogVars == << dialogOpen, dialog_err, baseApiUrl, initPc >>
queryVars == << incidents, neighborhoods, isLoadingCrimes, loadError, incidentReqs >>
otherReqs == << putReqs, deleteReqs, geocodeReqs >>

Step(op, arg, alert, fetch) == [op |-> op, arg |-> arg, alert |-> alert, fetch |-> fetch]

\* a handler started by the user, within the bounds of the model
UserEvent ==
    /\ events < MaxEvents
    /\ events' = events + 1

\* a handler resumed by a response
Resumed == events' = events

\* round-trips outstanding
InFlight ==
    Len(incidentReqs) + Len(putReqs) + Len(deleteReqs) + Len(geocodeReqs) + pendingMoves
    + (IF initPc \in {"codes", "neighborhoods"} THEN 1 ELSE 0)

\* no function is called on its own
NoCall == [fn |-> "none"]

Init ==
    /\ call = NoCall
    /\ dialogOpen = TRUE
    /\ dialog_err = FALSE
    /\ baseApiUrl = ""
    /\ initPc = "idle"
    /\ codes = <<>>
    /\ incidentTypeGroups = <<>>
    /\ neighborhoods = <<>>
    /\ incidents = <<>>
    /\ visibleNeighborhoodIds = <<>>
    /\ isLoadingCrimes = FALSE
    /\ loadError = ""
    /\ newIncidentError = ""
    /\ newIncidentSuccess = ""
    /\ selectedCaseNumber = Null
    /\ selectedIncidentMarker = NoMarker
    /\ geocodeCache = <<>>
    /\ leafletBounds = StartView
    /\ incidentReqs = <<>>
    /\ putReqs = <<>>
    /\ deleteReqs = <<>>
    /\ geocodeReqs = <<>>
    /\ pendingMoves = 0
    /\ events = 0
    /\ last = Step("mounted", "", "", NoFetch)

\* the writes of a fetchIncidents call f made on the current state
ApplyFetch(f) ==
    /\ incidents' = f.incidents
    /\ neighborhoods' = f.neighborhoods
    /\ isLoadingCrimes' = f.isLoadingCrimes
    /\ loadError' = f.loadError
    /\ incidentReqs' = incidentReqs \o f.requests

\* fetchIncidents called on the current state
FetchNow ==
    fetchIncidents(baseApiUrl, incidentTypeGroups, neighborhoods, visibleNeighborhoodIds,
                   incidents, isLoadingCrimes, loadError)

(***************************************************************************)
(* The URL dialog and initializeCrimes.                                    *)
(***************************************************************************)
closeDialog ==
    /\ UserEvent
    /\ UNCHANGED call
    /\ dialogOpen
    /\ \E input \in CrimeUrlInputs :
        IF input.value # "" /\ input.valid
        THEN /\ InFlight < MaxInFlight
             /\ dialog_err' = FALSE
             /\ dialogOpen' = FALSE
             /\ isLoadingCrimes' = FALSE
             /\ IF Trim(input.value) = ""
                THEN /\ loadError' = "You must enter a valid REST API URL."
                     /\ UNCHANGED << baseApiUrl, initPc >>
                ELSE /\ loadError' = ""
                     /\ baseApiUrl' = StripTrailingSlashes(Trim(input.value))
                     /\ initPc' = "codes"
             /\ last' = Step("closeDialog", input.value, "", NoFetch)
        ELSE /\ dialog_err' = TRUE
             /\ last' = Step("closeDialogRefused", input.value, "", NoFetch)
             /\ UNCHANGED << dialogOpen, baseApiUrl, initPc, isLoadingCrimes, loadError >>
    /\ UNCHANGED << refVars, neighborhoods, incidents, visibleNeighborhoodIds, formVars,
                    selVars, leafletBounds, incidentReqs, otherReqs, pendingMoves >>

InitFailedMessage ==
    "Failed to load codes/neighborhoods/incidents. Check REST API URL and server."

\* loadCodes resumes with a success response
CodesLoaded ==
    /\ Resumed
    /\ UNCHANGED call
    /\ initPc = "codes"
    /\ \E data \in CodesResponses :
        /\ codes' = data
        /\ incidentTypeGroups' = BuildTypeGroups(data)
    /\ initPc' = "neighborhoods"
    /\ last' = Step("codesLoaded", "", "", NoFetch)
    /\ UNCHANGED << dialogOpen, dialog_err, baseApiUrl, queryVars, visibleNeighborhoodIds,
                    formVars, selVars, leafletBounds, otherReqs, pendingMoves >>

\* a failed /codes load is swallowed and the initialization goes on
InitFailedContinuing ==
    /\ Resumed
    /\ UNCHANGED call
    /\ initPc \in {"codes", "neighborhoods"}
    /\ initPc' = IF initPc = "codes" THEN "neighborhoods" ELSE "failed"
    /\ loadError' = InitFailedMessage
    /\ last' = Step("initFailed", initPc, "", NoFetch)
    /\ UNCHANGED << dialogOpen, dialog_err, baseApiUrl, refVars, incidents, neighborhoods,
                    isLoadingCrimes, incidentReqs, visibleNeighborhoodIds, formVars,
                    selVars, leafletBounds, otherReqs, pendingMoves >>

\* loadCodes or loadNeighborhoods throws on a non-success response (or the fetch
\* rejects): the catch of initializeCrimes
InitFailed ==
    /\ Resumed
    /\ UNCHANGED call
    /\ initPc \in {"codes", "neighborhoods"}
    /\ initPc' = "failed"
    /\ loadError' = InitFailedMessage
    /\ last' = Step("initFailed", initPc, "", NoFetch)
    /\ UNCHANGED << dialogOpen, dialog_err, baseApiUrl, refVars, incidents, neighborhoods,
                    isLoadingCrimes, incidentReqs, visibleNeighborhoodIds, formVars,
                    selVars, leafletBounds, otherReqs, pendingMoves >>

\* loadNeighborhoods resumes with a success response; then updateVisibleNeighborhoods
\* and fetchIncidents
NeighborhoodsLoaded ==
    /\ Resumed
    /\ UNCHANGED call
    /\ initPc = "neighborhoods"
    /\ \E data \in NeighborhoodsResponses :
        LET nbhds == BuildNeighborhoods(data)
            visible == VisibleIn(nbhds, leafletBounds, visibleNeighborhoodIds)
            f == fetchIncidents(baseApiUrl, incidentTypeGroups, nbhds, visible, incidents,
                                isLoadingCrimes, loadError)
        IN  /\ visibleNeighborhoodIds' = visible
            /\ ApplyFetch(f)
            /\ last' = Step("neighborhoodsLoaded", "", "", f.info)
    /\ initPc' = "done"
    /\ UNCHANGED << dialogOpen, dialog_err, baseApiUrl, refVars, formVars, selVars,
                    leafletBounds, otherReqs, pendingMoves >>

(***************************************************************************)
(* The map and the filters.                                                *)
(***************************************************************************)
\* The user pans or zooms; Leaflet fires moveend and handleMapMoveEnd runs to the
\* await of the reverse geocode.
MapMove ==
    /\ UserEvent
    /\ UNCHANGED call
    /\ InFlight < MaxInFlight
    /\ \E view \in LeafletViews : leafletBounds' = view
    /\ pendingMoves' = pendingMoves + 1
    /\ last' = Step("mapMove", "", "", NoFetch)
    /\ UNCHANGED << dialogVars, refVars, queryVars, visibleNeighborhoodIds, formVars,
                    selVars, otherReqs >>

\* handleMapMoveEnd resumes after updateLocationFromLatLng (whatever the reverse
\* geocode answered): updateVisibleNeighborhoods, then fetchIncidents
MapMoveEnd ==
    /\ Resumed
    /\ UNCHANGED call
    /\ pendingMoves > 0
    /\ pendingMoves' = pendingMoves - 1
    /\ LET visible == VisibleIn(neighborhoods, leafletBounds, visibleNeighborhoodIds)
       IN  /\ visibleNeighborhoodIds' = visible
           /\ IF baseApiUrl # ""
              THEN LET f == fetchIncidents(baseApiUrl, incidentTypeGroups, neighborhoods,
                                           visible, incidents, isLoadingCrimes, loadError)
                   IN  /\ ApplyFetch(f)
                       /\ last' = Step("mapMoveEnd", "", "", f.info)
              ELSE /\ UNCHANGED queryVars
                   /\ last' = Step("mapMoveEnd", "", "", NoFetch)
    /\ UNCHANGED << dialogVars, refVars, formVars, selVars, leafletBounds, otherReqs >>

\* checkbox of a neighborhood (v-model="n.selected")
ToggleNeighborhood ==
    /\ UserEvent
    /\ UNCHANGED call
    /\ \E i \in 1..Len(neighborhoods) :
        neighborhoods' = [neighborhoods EXCEPT ![i].selected = ~neighborhoods[i].selected]
    /\ last' = Step("toggleNeighborhood", "", "", NoFetch)
    /\ UNCHANGED << dialogVars, refVars, incidents, isLoadingCrimes, loadError,
                    incidentReqs, visibleNeighborhoodIds, formVars, selVars,
                    leafletBounds, otherReqs, pendingMoves >>

\* checkbox of a type group (v-model="group.selected")
ToggleTypeGroup ==
    /\ UserEvent
    /\ UNCHANGED call
    /\ \E i \in 1..Len(incidentTypeGroups) :
        incidentTypeGroups' =
            [incidentTypeGroups EXCEPT ![i].selected = ~incidentTypeGroups[i].selected]
    /\ last' = Step("toggleTypeGroup", "", "", NoFetch)
    /\ UNCHANGED << dialogVars, codes, queryVars, visibleNeighborhoodIds, formVars,
                    selVars, leafletBounds, otherReqs, pendingMoves >>

\* the "Update Crimes" button
applyFilters ==
    /\ UserEvent
    /\ UNCHANGED call
    /\ InFlight < MaxInFlight
    /\ ApplyFetch(FetchNow)
    /\ last' = Step("applyFilters", "", "", FetchNow.info)
    /\ UNCHANGED << dialogVars, refVars, visibleNeighborhoodIds, formVars, selVars,
                    leafletBounds, otherReqs, pendingMoves >>

(***************************************************************************)
(* fetchIncidents, after its await.                                        *)
(***************************************************************************)
FetchFailedMessage(body) == IF body # "" THEN body ELSE "Failed to fetch incidents"

\* the requests in flight after request i was answered with a success status:
\* request i removed, the requests issued before it marked as overtaken
AfterAnswer(reqs, i) ==
    RemoveAt([j \in 1..Len(reqs) |-> IF j < i THEN [reqs[j] EXCEPT !.overtaken = TRUE]
                                              ELSE reqs[j]], i)

\* a response that a later request's response has overtaken is dropped
IncidentsLoadedSequenced ==
    /\ Resumed
    /\ UNCHANGED call
    /\ \E i \in 1..Len(incidentReqs) : \E data \in IncidentsResponses :
        /\ incidentReqs' = AfterAnswer(incidentReqs, i)
        /\ IF ~incidentReqs[i].overtaken
           THEN /\ incidents' = Enrich(data, codes, neighborhoods)
                /\ neighborhoods' =
                     updateNeighborhoodCountsFromIncidents(neighborhoods, incidents')
           ELSE UNCHANGED << incidents, neighborhoods >>
        /\ last' = Step("incidentsLoaded", [data |-> data, request |-> incidentReqs[i]],
                        "", NoFetch)
    /\ isLoadingCrimes' = FALSE
    /\ UNCHANGED << dialogVars, refVars, loadError, visibleNeighborhoodIds, formVars,
                    selVars, leafletBounds, otherReqs, pendingMoves >>

\* a request (any of those in flight) is answered with a success status: the rows
\* are enriched, the counts recomputed; finally isLoadingCrimes = false
IncidentsLoaded ==
    /\ Resumed
    /\ UNCHANGED call
    /\ \E i \in 1..Len(incidentReqs) : \E data \in IncidentsResponses :
        /\ incidentReqs' = AfterAnswer(incidentReqs, i)
        /\ incidents' = Enrich(data, codes, neighborhoods)
        /\ neighborhoods' = updateNeighborhoodCountsFromIncidents(neighborhoods, incidents')
        /\ last' = Step("incidentsLoaded", [data |-> data, request |-> incidentReqs[i]],
                        "", NoFetch)
    /\ isLoadingCrimes' = FALSE
    /\ UNCHANGED << dialogVars, refVars, loadError, visibleNeighborhoodIds, formVars,
                    selVars, leafletBounds, otherReqs, pendingMoves >>

\* a failed query also empties the table
IncidentsFailedClearing ==
    /\ Resumed
    /\ UNCHANGED call
    /\ \E i \in 1..Len(incidentReqs) : \E body \in ErrorBodies :
        /\ incidentReqs' = RemoveAt(incidentReqs, i)
        /\ loadError' = FetchFailedMessage(body)
        /\ last' = Step("incidentsFailed", body, "", NoFetch)
    /\ incidents' = <<>>
    /\ neighborhoods' = updateNeighborhoodCountsFromIncidents(neighborhoods, <<>>)
    /\ isLoadingCrimes' = FALSE
    /\ UNCHANGED << dialogVars, refVars, visibleNeighborhoodIds,
                    formVars, selVars, leafletBounds, otherReqs, pendingMoves >>

\* a request is answered with a non-success status: throw new Error(text || ...),
\* the catch sets loadError; finally isLoadingCrimes = false
IncidentsFailed ==
    /\ Resumed
    /\ UNCHANGED call
    /\ \E i \in 1..Len(incidentReqs) : \E body \in ErrorBodies :
        /\ incidentReqs' = RemoveAt(incidentReqs, i)
        /\ loadError' = FetchFailedMessage(body)
        /\ last' = Step("incidentsFailed", body, "", NoFetch)
    /\ isLoadingCrimes' = FALSE
    /\ UNCHANGED << dialogVars, refVars, incidents, neighborhoods, visibleNeighborhoodIds,
                    formVars, selVars, leafletBounds, otherReqs, pendingMoves >>

(***************************************************************************)
(* The new-incident form.                                                  *)
(***************************************************************************)
requiredFields ==
    << "case_number", "date", "time", "code", "incident", "police_grid",
       "neighborhood_number", "block" >>

\* the forms the user submits: every field filled, one of them padded, one left
\* empty, the last one blank, or none filled
NewIncidentForms ==
    LET filled == [f \in Range(requiredFields) |-> "7"]
    IN  {filled, [f \in Range(requiredFields) |-> ""],
         [filled EXCEPT !["case_number"] = " 7 "], [filled EXCEPT !["code"] = ""],
         [filled EXCEPT !["block"] = " "]}

\* the form as the user left it: some field is empty or blank
HasBlankField(form) == \E f \in DOMAIN form : form[f] \in {"", " "}

\* the validation loop looks at the first field only
FormCompleteFirstOnly(form) == Trim(form[requiredFields[1]]) # ""

\* the validation loop passes: no field is empty after trimming
FormComplete(form) == \A i \in 1..Len(requiredFields) : Trim(form[requiredFields[i]]) # ""

\* Number("7") and Number(" 7 ") are 7
ToNumber(v) == IF Trim(v) = "7" THEN 7 ELSE 0

Payload(form) ==
    [case_number |-> Trim(form["case_number"]), date |-> form["date"],
     time |-> form["time"], code |-> ToNumber(form["code"]),
     incident |-> Trim(form["incident"]), police_grid |-> ToNumber(form["police_grid"]),
     neighborhood_number |-> ToNumber(form["neighborhood_number"]),
     block |-> Trim(form["block"])]

\* the form is submitted without looking at baseApiUrl
submitNewIncidentAnyUrl ==
    /\ UserEvent
    /\ UNCHANGED call
    /\ \E form \in NewIncidentForms :
        IF ~FormComplete(form)
        THEN /\ newIncidentError' = "All fields are required."
             /\ putReqs' = putReqs
             /\ last' = Step("submitInvalid", HasBlankField(form), "", NoFetch)
        ELSE /\ InFlight < MaxInFlight
             /\ newIncidentError' = ""
             /\ putReqs' = Append(putReqs, Payload(form))
             /\ last' = Step("submit", HasBlankField(form), "", NoFetch)
    /\ newIncidentSuccess' = ""
    /\ UNCHANGED << dialogVars, refVars, queryVars, visibleNeighborhoodIds, selVars,
                    leafletBounds, deleteReqs, geocodeReqs, pendingMoves >>

\* the "Submit Incident" button, to the await of the PUT
submitNewIncident ==
    /\ UserEvent
    /\ UNCHANGED call
    /\ \E form \in NewIncidentForms :
        IF baseApiUrl = ""
        THEN /\ newIncidentError' = "Enter REST API URL first."
             /\ putReqs' = putReqs
             /\ last' = Step("submitNoUrl", HasBlankField(form), "", NoFetch)
        ELSE IF ~FormComplete(form)
        THEN /\ newIncidentError' = "All fields are required."
             /\ putReqs' = putReqs
             /\ last' = Step("submitInvalid", HasBlankField(form), "", NoFetch)
        ELSE /\ InFlight < MaxInFlight
             /\ newIncidentError' = ""
             /\ putReqs' = Append(putReqs, Payload(form))
             /\ last' = Step("submit", HasBlankField(form), "", NoFetch)
    /\ newIncidentSuccess' = ""
    /\ UNCHANGED << dialogVars, refVars, queryVars, visibleNeighborhoodIds, selVars,
                    leafletBounds, deleteReqs, geocodeReqs, pendingMoves >>

\* the PUT is answered with a success status: the success message, then fetchIncidents
NewIncidentAdded ==
    /\ Resumed
    /\ UNCHANGED call
    /\ Len(putReqs) > 0
    /\ \E i \in 1..Len(putReqs) : putReqs' = RemoveAt(putReqs, i)
    /\ newIncidentSuccess' = "Incident successfully added."
    /\ ApplyFetch(FetchNow)
    /\ last' = Step("newIncidentAdded", "", "", FetchNow.info)
    /\ UNCHANGED << dialogVars, refVars, visibleNeighborhoodIds, newIncidentError, selVars,
                    leafletBounds, deleteReqs, geocodeReqs, pendingMoves >>

AddFailedMessage(body) == IF body # "" THEN body ELSE "Failed to add incident"

\* the PUT is answered with a non-success status: the catch sets newIncidentError
NewIncidentFailed ==
    /\ Resumed
    /\ UNCHANGED call
    /\ Len(putReqs) > 0
    /\ \E i \in 1..Len(putReqs) : putReqs' = RemoveAt(putReqs, i)
    /\ \E body \in ErrorBodies :
        /\ newIncidentError' = AddFailedMessage(body)
        /\ last' = Step("newIncidentFailed", body, "", NoFetch)
    /\ UNCHANGED << dialogVars, refVars, queryVars, visibleNeighborhoodIds,
                    newIncidentSuccess, selVars, leafletBounds, deleteReqs, geocodeReqs,
                    pendingMoves >>

(***************************************************************************)
(* Deleting and selecting an incident.                                     *)
(***************************************************************************)
\* the incidents a Delete button exists for: the rows of the table, and the incident
\* of the selected marker's popup
Deletable ==
    {incidents[i].case_number : i \in 1..Len(incidents)}
    \cup {selectedIncidentMarker[i].popup : i \in 1..Len(selectedIncidentMarker)}

\* the DELETE is issued without asking
deleteIncidentUnconfirmed ==
    /\ UserEvent
    /\ UNCHANGED call
    /\ baseApiUrl # ""
    /\ \E case \in Deletable : \E confirmation \in BOOLEAN :
        /\ InFlight < MaxInFlight
        /\ deleteReqs' = Append(deleteReqs, case)
        /\ last' = Step(IF confirmation THEN "delete" ELSE "deleteDeclined", case, "",
                        NoFetch)
    /\ UNCHANGED << dialogVars, refVars, queryVars, visibleNeighborhoodIds, formVars,
                    selVars, leafletBounds, putReqs, geocodeReqs, pendingMoves >>

\* a Delete button, to the await of the DELETE: confirm(), then the request
deleteIncident ==
    /\ UserEvent
    /\ UNCHANGED call
    /\ baseApiUrl # ""
    /\ \E case \in Deletable : \E confirmation \in BOOLEAN :
        IF ~confirmation
        THEN /\ deleteReqs' = deleteReqs
             /\ last' = Step("deleteDeclined", case, "", NoFetch)
        ELSE /\ InFlight < MaxInFlight
             /\ deleteReqs' = Append(deleteReqs, case)
             /\ last' = Step("delete", case, "", NoFetch)
    /\ UNCHANGED << dialogVars, refVars, queryVars, visibleNeighborhoodIds, formVars,
                    selVars, leafletBounds, putReqs, geocodeReqs, pendingMoves >>

\* the DELETE is answered with a success status: the selection and its marker are
\* cleared when the deleted case is the selected one, then fetchIncidents
IncidentDeleted ==
    /\ Resumed
    /\ UNCHANGED call
    /\ \E i \in 1..Len(deleteReqs) :
        /\ deleteReqs' = RemoveAt(deleteReqs, i)
        /\ IF selectedCaseNumber = deleteReqs[i]
           THEN /\ selectedCaseNumber' = Null
                /\ selectedIncidentMarker' = NoMarker
           ELSE UNCHANGED << selectedCaseNumber, selectedIncidentMarker >>
        /\ last' = Step("incidentDeleted", deleteReqs[i], "", FetchNow.info)
    /\ ApplyFetch(FetchNow)
    /\ UNCHANGED << dialogVars, refVars, visibleNeighborhoodIds, formVars, geocodeCache,
                    leafletBounds, putReqs, geocodeReqs, pendingMoves >>

DeleteFailedMessage(body) == IF body # "" THEN body ELSE "Failed to delete incident"

\* a failed DELETE clears the selection all the same
DeleteFailedClearing ==
    /\ Resumed
    /\ UNCHANGED call
    /\ \E i \in 1..Len(deleteReqs) : \E body \in ErrorBodies :
        /\ deleteReqs' = RemoveAt(deleteReqs, i)
        /\ IF selectedCaseNumber = deleteReqs[i]
           THEN /\ selectedCaseNumber' = Null
                /\ selectedIncidentMarker' = NoMarker
           ELSE UNCHANGED << selectedCaseNumber, selectedIncidentMarker >>
        /\ last' = Step("deleteFailed", deleteReqs[i], DeleteFailedMessage(body), NoFetch)
    /\ UNCHANGED << dialogVars, refVars, queryVars, visibleNeighborhoodIds, formVars,
                    geocodeCache, leafletBounds, putReqs, geocodeReqs, pendingMoves >>

\* the DELETE is answered with a non-success status: the catch alerts the message
DeleteFailed ==
    /\ Resumed
    /\ UNCHANGED call
    /\ \E i \in 1..Len(deleteReqs) : \E body \in ErrorBodies :
        /\ deleteReqs' = RemoveAt(deleteReqs, i)
        /\ last' = Step("deleteFailed", deleteReqs[i], DeleteFailedMessage(body), NoFetch)
    /\ UNCHANGED << dialogVars, refVars, queryVars, visibleNeighborhoodIds, formVars,
                    selVars, leafletBounds, putReqs, geocodeReqs, pendingMoves >>

\* the address sent to the geocoding service: a leading house number ending in X
\* (98X, matched ignoring case) has its "X" replaced by 0, and the city is appended
normalizeBlockAddress(block) ==
    LET addr == Trim(block)
        n == DigitsPrefixLen(addr)
        m == /\ n > 0 /\ Len(addr) >= n + 2
             /\ CharAt(addr, n + 1) \in {"X", "x"}
             /\ CharAt(addr, n + 2) = " "
        number == SubSeq(addr, 1, n) \o (IF CharAt(addr, n + 1) = "X" THEN "0" ELSE "x")
        rest == TrimStart(SubSeq(addr, n + 2, Len(addr)))
    IN  (IF m THEN number \o " " \o rest ELSE addr) \o ", Saint Paul, MN"

\* the views map.leaflet.setView([lat, lng], zoom) can leave the map in
ViewsCentredAt(lat, lng) ==
    {v \in LeafletViews : v.north + v.south = 2 * lat /\ v.west + v.east = 2 * lng}

CouldNotLocate == "Could not determine exact location for this incident."

\* selectIncident after geocodeBlock returned coords for incident: the marker is
\* created or moved and its popup bound; setView moves the map, Leaflet fires
\* moveend and handleMapMoveEnd runs to its await
PlaceMarker(case, coords) ==
    /\ selectedIncidentMarker' =
         << [lat |-> coords.lat, lng |-> coords.lng, popup |-> case] >>
    /\ \E view \in ViewsCentredAt(coords.lat, coords.lng) : leafletBounds' = view
    /\ pendingMoves' = pendingMoves + 1

\* a row of the table is clicked: selectIncident to the await of the geocoding
\* request, or to its end when geocodeBlock answers without a request
selectIncident ==
    /\ UserEvent
    /\ UNCHANGED call
    /\ \E r \in 1..Len(incidents) :
        LET incident == incidents[r]
        IN  /\ selectedCaseNumber' = incident.case_number
            /\ IF incident.block = ""
               THEN /\ last' = Step("selectIncident", incident.case_number,
                                    CouldNotLocate, NoFetch)
                    /\ UNCHANGED << selectedIncidentMarker, leafletBounds, pendingMoves,
                                    geocodeReqs >>
               ELSE IF incident.block \in DOMAIN geocodeCache
               THEN /\ InFlight < MaxInFlight
                    /\ PlaceMarker(incident.case_number, geocodeCache[incident.block])
                    /\ last' = Step("selectIncident", incident.case_number, "", NoFetch)
                    /\ UNCHANGED geocodeReqs
               ELSE /\ InFlight < MaxInFlight
                    /\ geocodeReqs' = Append(geocodeReqs,
                          [case_number |-> incident.case_number, block |-> incident.block,
                           query |-> normalizeBlockAddress(incident.block)])
                    /\ last' = Step("selectIncident", incident.case_number, "", NoFetch)
                    /\ UNCHANGED << selectedIncidentMarker, leafletBounds, pendingMoves >>
    /\ UNCHANGED << dialogVars, refVars, queryVars, visibleNeighborhoodIds, formVars,
                    geocodeCache, putReqs, deleteReqs >>

\* the result is cached under the address that was sent
BlockGeocodedByQuery ==
    /\ Resumed
    /\ UNCHANGED call
    /\ \E i \in 1..Len(geocodeReqs) : \E result \in GeocodeResults :
        LET clamped == clampLatLng(result[1], result[2])
        IN  /\ geocodeReqs' = RemoveAt(geocodeReqs, i)
            /\ geocodeCache' = (geocodeReqs[i].query :> clamped) @@ geocodeCache
            /\ PlaceMarker(geocodeReqs[i].case_number, clamped)
            /\ last' = Step("blockGeocoded", geocodeReqs[i].case_number, "", NoFetch)
    /\ UNCHANGED << dialogVars, refVars, queryVars, visibleNeighborhoodIds, formVars,
                    selectedCaseNumber, putReqs, deleteReqs >>

\* the geocoding service answers with a match: the clamped coordinate is cached
\* under the block and the marker placed
BlockGeocoded ==
    /\ Resumed
    /\ UNCHANGED call
    /\ \E i \in 1..Len(geocodeReqs) : \E result \in GeocodeResults :
        LET clamped == clampLatLng(result[1], result[2])
        IN  /\ geocodeReqs' = RemoveAt(geocodeReqs, i)
            /\ geocodeCache' = (geocodeReqs[i].block :> clamped) @@ geocodeCache
            /\ PlaceMarker(geocodeReqs[i].case_number, clamped)
            /\ last' = Step("blockGeocoded", geocodeReqs[i].case_number, "", NoFetch)
    /\ UNCHANGED << dialogVars, refVars, queryVars, visibleNeighborhoodIds, formVars,
                    selectedCaseNumber, putReqs, deleteReqs >>

\* the geocoding service fails or finds nothing: geocodeBlock returns null and
\* selectIncident alerts
BlockNotGeocoded ==
    /\ Resumed
    /\ UNCHANGED call
    /\ \E i \in 1..Len(geocodeReqs) :
        /\ geocodeReqs' = RemoveAt(geocodeReqs, i)
        /\ last' = Step("blockNotGeocoded", geocodeReqs[i].case_number, CouldNotLocate,
                        NoFetch)
    /\ UNCHANGED << dialogVars, refVars, queryVars, visibleNeighborhoodIds, formVars,
                    selVars, leafletBounds, putReqs, deleteReqs, pendingMoves >>

(***************************************************************************)
(* The specification.                                                      *)
(***************************************************************************)
Next ==
    \/ closeDialog
    \/ CodesLoaded
    \/ InitFailed
    \/ NeighborhoodsLoaded
    \/ MapMove
    \/ MapMoveEnd
    \/ ToggleNeighborhood
    \/ ToggleTypeGroup
    \/ applyFilters
    \/ IncidentsLoaded
    \/ IncidentsFailed
    \/ submitNewIncident
    \/ NewIncidentAdded
    \/ NewIncidentFailed
    \/ deleteIncident
    \/ IncidentDeleted
    \/ DeleteFailed
    \/ selectIncident
    \/ BlockGeocoded
    \/ BlockNotGeocoded

Spec == Init /\ [][Next]_vars

(***************************************************************************)
(* loadCodes on any /codes answer.                                         *)
(***************************************************************************)
\* the state closeDialog leaves: the URL accepted, loadCodes awaiting /codes
InitCodes ==
    /\ call = NoCall
    /\ dialogOpen = FALSE
    /\ dialog_err = FALSE
    /\ baseApiUrl = "http://localhost:8000"
    /\ initPc = "codes"
    /\ codes = <<>>
    /\ incidentTypeGroups = <<>>
    /\ neighborhoods = <<>>
    /\ incidents = <<>>
    /\ visibleNeighborhoodIds = <<>>
    /\ isLoadingCrimes = FALSE
    /\ loadError = ""
    /\ newIncidentError = ""
    /\ newIncidentSuccess = ""
    /\ selectedCaseNumber = Null
    /\ selectedIncidentMarker = NoMarker
    /\ geocodeCache = <<>>
    /\ leafletBounds = StartView
    /\ incidentReqs = <<>>
    /\ putReqs = <<>>
    /\ deleteReqs = <<>>
    /\ geocodeReqs = <<>>
    /\ pendingMoves = 0
    /\ events = 1
    /\ last = Step("closeDialog", "http://localhost:8000/", "", NoFetch)

\* loadCodes resumes with a success response carrying any code list
CodesLoadedAny ==
    /\ Resumed
    /\ UNCHANGED call
    /\ initPc = "codes"
    /\ \E data \in CodeLists :
        /\ codes' = data
        /\ incidentTypeGroups' = BuildTypeGroups(data)
    /\ initPc' = "neighborhoods"
    /\ last' = Step("codesLoaded", "", "", NoFetch)
    /\ UNCHANGED << dialogOpen, dialog_err, baseApiUrl, queryVars, visibleNeighborhoodIds,
                    formVars, selVars, leafletBounds, otherReqs, pendingMoves >>

NextCodes == CodesLoadedAny \/ InitFailed

SpecCodes == InitCodes /\ [][NextCodes]_vars

(***************************************************************************)
(* categorizeCrime and clampLatLng called on their own.                    *)
(***************************************************************************)
\* incident types and incident texts, each with what a reader finds in it: a
\* violent keyword (violent), a property keyword (property)
TypeSamples ==
    { [s |-> "Theft", violent |-> FALSE, property |-> TRUE],
      [s |-> "Robbery", violent |-> TRUE, property |-> TRUE],
      [s |-> "Narcotics", violent |-> FALSE, property |-> FALSE],
      [s |-> "ASSAULT", violent |-> TRUE, property |-> FALSE],
      [s |-> "Unknown", violent |-> FALSE, property |-> FALSE],
      [s |-> "Criminal Damage to Property", violent |-> FALSE, property |-> TRUE],
      [s |-> "Domestic Assault", violent |-> TRUE, property |-> FALSE] }

TextSamples ==
    { [s |-> "", violent |-> FALSE, property |-> FALSE],
      [s |-> "THEFT FROM AUTO", violent |-> FALSE, property |-> TRUE],
      [s |-> "Aggravated Robbery", violent |-> TRUE, property |-> TRUE],
      [s |-> "Agg. Assault Dangerous Weapon", violent |-> TRUE, property |-> FALSE],
      [s |-> "Stolen Property", violent |-> FALSE, property |-> TRUE],
      [s |-> "Graffiti", violent |-> FALSE, property |-> FALSE],
      [s |-> "Burglary and Assault", violent |-> TRUE, property |-> TRUE],
      [s |-> "Drapes stolen", violent |-> TRUE, property |-> TRUE] }

\* coordinates (degrees * 10^6) on, next to, inside and far from each edge of the box
LatSamples ==
    { -90000000, 0, BoundsSeLat - 1000000, BoundsSeLat - 1, BoundsSeLat, BoundsSeLat + 1,
      CenterLat, BoundsNwLat - 1, BoundsNwLat, BoundsNwLat + 1, BoundsNwLat + 1000000,
      90000000 }

LngSamples ==
    { -180000000, BoundsNwLng - 1000000, BoundsNwLng - 1, BoundsNwLng, BoundsNwLng + 1,
      CenterLng, BoundsSeLng - 1, BoundsSeLng, BoundsSeLng + 1, BoundsSeLng + 1000000, 0,
      180000000 }

Calls ==
    {[fn |-> "categorizeCrime", args |-> <<t, x>>, returned |-> FALSE, result |-> Null] :
        t \in TypeSamples, x \in TextSamples}
    \cup {[fn |-> "clampLatLng", args |-> <<lat, lng>>, returned |-> FALSE,
           result |-> Null] : lat \in LatSamples, lng \in LngSamples}

\* the program as mounted, and one call about to be made
InitCalls ==
    /\ call \in Calls
    /\ dialogOpen = TRUE
    /\ dialog_err = FALSE
    /\ baseApiUrl = ""
    /\ initPc = "idle"
    /\ codes = <<>>
    /\ incidentTypeGroups = <<>>
    /\ neighborhoods = <<>>
    /\ incidents = <<>>
    /\ visibleNeighborhoodIds = <<>>
    /\ isLoadingCrimes = FALSE
    /\ loadError = ""
    /\ newIncidentError = ""
    /\ newIncidentSuccess = ""
    /\ selectedCaseNumber = Null
    /\ selectedIncidentMarker = NoMarker
    /\ geocodeCache = <<>>
    /\ leafletBounds = StartView
    /\ incidentReqs = <<>>
    /\ putReqs = <<>>
    /\ deleteReqs = <<>>
    /\ geocodeReqs = <<>>
    /\ pendingMoves = 0
    /\ events = 0
    /\ last = Step("mounted", "", "", NoFetch)

programVars ==
    << dialogOpen, dialog_err, baseApiUrl, initPc, codes, incidentTypeGroups,
       neighborhoods, incidents, visibleNeighborhoodIds, isLoadingCrimes, loadError,
       newIncidentError, newIncidentSuccess, selectedCaseNumber, selectedIncidentMarker,
       geocodeCache, leafletBounds, incidentReqs, putReqs, deleteReqs, geocodeReqs,
       pendingMoves, events, last >>

categorizeCrimeReturns ==
    /\ call.fn = "categorizeCrime" /\ ~call.returned
    /\ call' = [call EXCEPT !.returned = TRUE,
                            !.result = categorizeCrime(call.args[1].s, call.args[2].s)]
    /\ UNCHANGED programVars

clampLatLngReturns ==
    /\ call.fn = "clampLatLng" /\ ~call.returned
    /\ call' = [call EXCEPT !.returned = TRUE,
                            !.result = clampLatLng(call.args[1], call.args[2])]
    /\ UNCHANGED programVars

NextCalls == categorizeCrimeReturns \/ clampLatLngReturns

SpecCalls == InitCalls /\ [][NextCalls]_vars

(***************************************************************************)
(* Properties.                                                             *)
(***************************************************************************)
\* the request the last step's fetchIncidents issued
NewestRequest == incidentReqs[Len(incidentReqs)]

NoNeighborhoodSelected == \A i \in 1..Len(neighborhoods) : ~neighborhoods[i].selected
NoTypeGroupSelected == \A i \in 1..Len(incidentTypeGroups) : ~incidentTypeGroups[i].selected
LoadedIds == [i \in 1..Len(neighborhoods) |-> neighborhoods[i].id]

\* C1: in every state, each neighborhood's crime count is the number of incidents of
\* the current incident list whose neighborhood_number is that neighborhood's id.
C1_CountsMatchIncidents ==
    \A i \in 1..Len(neighborhoods) :
        neighborhoods[i].crimes =
            Cardinality({k \in 1..Len(incidents) :
                            incidents[k].neighborhood_number = neighborhoods[i].id})

\* a neighborhood counts two incidents while a query is awaiting its response
C1_Witness ==
    /\ \E i \in 1..Len(neighborhoods) : neighborhoods[i].crimes = 2
    /\ Len(incidents) = 2
    /\ Len(incidentReqs) > 0

\* C2: when fetchIncidents runs with no neighborhood selected and an empty visible
\* set, the incident list becomes empty and no /incidents request is issued.
C2_ShortCircuitsWhenNothingSelectedOrVisible ==
    (last.fetch.ran /\ last.fetch.selected = <<>> /\ last.fetch.visible = <<>>)
        => (incidents = <<>> /\ ~last.fetch.issued)

\* C3: a request fetchIncidents issues carries only neighborhood ids that are in
\* visibleNeighborhoodIds when it is issued.
C3_RequestsOnlyVisibleNeighborhoods ==
    (last.fetch.ran /\ last.fetch.issued)
        => Range(NewestRequest.params.neighborhood) \subseteq Range(visibleNeighborhoodIds)

C5_EmptyEffectiveSetShortCircuits ==
    [][(last'.fetch.ran /\ last'.fetch.inView = <<>>) =>
            /\ incidents' = <<>>
            /\ \A i \in 1..Len(neighborhoods') : neighborhoods'[i].crimes = 0
            /\ incidentReqs' = incidentReqs
            /\ isLoadingCrimes' = FALSE]_vars

\* the short-circuit taken with neighborhoods ticked and neighborhoods in view, but
\* none that is both
C5_Witness ==
    /\ last.fetch.ran /\ last.fetch.inView = <<>>
    /\ last.fetch.selected # <<>> /\ last.fetch.visible # <<>>
    /\ incidents = <<>>

\* C6: a success response is applied whenever it arrives: after the step that
\* handles it, the incident list is the enriched rows of that response and the
\* counts are those of these rows, also when the response of a request issued
\* later was applied before.
C6_LastResponseWins ==
    last.op = "incidentsLoaded" =>
        /\ incidents = Enrich(last.arg.data, codes, neighborhoods)
        /\ \A i \in 1..Len(neighborhoods) :
              neighborhoods[i].crimes =
                  Cardinality({k \in 1..Len(last.arg.data) :
                      last.arg.data[k].neighborhood_number = neighborhoods[i].id})

\* the rows shown are those of a request that a later request's response had
\* overtaken, and it asked for a neighborhood that has been unticked since
C6_Witness ==
    /\ last.op = "incidentsLoaded"
    /\ last.arg.request.overtaken
    /\ last.arg.data # <<>>
    /\ incidents = Enrich(last.arg.data, codes, neighborhoods)
    /\ \E i \in 1..Len(neighborhoods) :
          /\ ~neighborhoods[i].selected
          /\ neighborhoods[i].id \in Range(last.arg.request.params.neighborhood)

\* C7: the step that handles a non-success /incidents response sets loadError to the
\* body, or to the generic message when the body is empty, leaves the incident list
\* and the neighborhood counts as they were, and ends with isLoadingCrimes false.
C7_FailedQueryKeepsIncidents ==
    [][last'.op = "incidentsFailed" =>
            /\ loadError' = IF last'.arg = "" THEN "Failed to fetch incidents" ELSE last'.arg
            /\ incidents' = incidents
            /\ neighborhoods' = neighborhoods
            /\ isLoadingCrimes' = FALSE]_vars

\* a query failed with an empty body while the table held counted rows
C7_Witness ==
    /\ last.op = "incidentsFailed"
    /\ last.arg = ""
    /\ loadError = "Failed to fetch incidents"
    /\ incidents # <<>>
    /\ \E i \in 1..Len(neighborhoods) : neighborhoods[i].crimes > 0

\* C8: a submit of a form with an empty or blank field sets newIncidentError, issues
\* no request (no PUT, no /incidents refresh, nothing else) and leaves the incident
\* list unchanged.
C8_IncompleteFormIsRejected ==
    [][(last'.op \in {"submit", "submitInvalid", "submitNoUrl"} /\ last'.arg) =>
            /\ newIncidentError' =
                  IF baseApiUrl = "" THEN "Enter REST API URL first."
                  ELSE "All fields are required."
            /\ putReqs' = putReqs
            /\ incidentReqs' = incidentReqs
            /\ deleteReqs' = deleteReqs
            /\ incidents' = incidents]_vars

\* an incomplete form was rejected with the backend configured and rows in the table
C8_Witness ==
    /\ last.op = "submitInvalid"
    /\ last.arg
    /\ baseApiUrl # ""
    /\ newIncidentError = "All fields are required."
    /\ incidents # <<>>

\* C9: the step that handles a non-success PUT or DELETE response surfaces the error
\* (newIncidentError, or an alert) and changes neither the incident list, the
\* counts, the selected case number nor the marker, and issues no /incidents
\* request.
C9_FailedMutationChangesNothing ==
    [][(last'.op \in {"newIncidentFailed", "deleteFailed"}) =>
            /\ last'.op = "newIncidentFailed" =>
                  newIncidentError' =
                      IF last'.arg = "" THEN "Failed to add incident" ELSE last'.arg
            /\ last'.op = "deleteFailed" => last'.alert # ""
            /\ incidents' = incidents
            /\ neighborhoods' = neighborhoods
            /\ selectedCaseNumber' = selectedCaseNumber
            /\ selectedIncidentMarker' = selectedIncidentMarker
            /\ incidentReqs' = incidentReqs
            /\ ~last'.fetch.called]_vars

\* the DELETE of the selected case failed: its marker is still on the map
C9_Witness ==
    /\ last.op = "deleteFailed"
    /\ last.alert # ""
    /\ selectedCaseNumber = last.arg
    /\ selectedIncidentMarker # NoMarker
    /\ incidents # <<>>

\* C10: a DELETE request is issued only by a confirmed deleteIncident; a declined
\* one changes nothing; the step that handles a success response clears the
\* selected case number and the marker exactly when the selected case is the
\* deleted one, and calls fetchIncidents on the state so cleared.
C10_DeleteConfirmsThenClearsThenRefreshes ==
    [][/\ Len(deleteReqs') > Len(deleteReqs) =>
            (last'.op = "delete" /\ deleteReqs' = Append(deleteReqs, last'.arg))
       /\ last'.op = "deleteDeclined" =>
            UNCHANGED << dialogOpen, dialog_err, baseApiUrl, initPc, codes,
                         incidentTypeGroups, neighborhoods, incidents,
                         visibleNeighborhoodIds, isLoadingCrimes, loadError,
                         newIncidentError, newIncidentSuccess, selectedCaseNumber,
                         selectedIncidentMarker, geocodeCache, leafletBounds,
                         incidentReqs, putReqs, deleteReqs, geocodeReqs, pendingMoves >>
       /\ last'.op = "delete" => incidentReqs' = incidentReqs
       /\ last'.op = "incidentDeleted" =>
            /\ selectedCaseNumber' =
                  IF selectedCaseNumber = last'.arg THEN Null ELSE selectedCaseNumber
            /\ selectedIncidentMarker' =
                  IF selectedCaseNumber = last'.arg THEN NoMarker
                  ELSE selectedIncidentMarker
            /\ last'.fetch.called
            /\ last'.fetch.issued =>
                  (Len(incidentReqs') = Len(incidentReqs) + 1)]_vars

\* the selected case was deleted: the selection and the marker placed for it are
\* gone and the refresh query is awaiting its response
C10_Witness ==
    /\ last.op = "incidentDeleted"
    /\ last.fetch.issued
    /\ geocodeCache # <<>>
    /\ selectedCaseNumber = Null
    /\ selectedIncidentMarker = NoMarker
    /\ Len(incidentReqs) > 0

\* C11: when the /codes or the /neighborhoods load of initializeCrimes is answered
\* with a non-success status, a non-empty load error is set, the step issues no
\* /incidents request, and the initialization takes no further step: no
\* /neighborhoods request after a failed /codes load, no load of codes or
\* neighborhoods and no fetchIncidents of the initialization afterwards.
C11_FailedLoadHaltsInitialization ==
    [][/\ (initPc \in {"codes", "neighborhoods"} /\ last'.op = "initFailed") =>
            /\ initPc' = "failed"
            /\ loadError' # ""
            /\ incidentReqs' = incidentReqs
            /\ << codes', incidentTypeGroups', neighborhoods' >>
                 = << codes, incidentTypeGroups, neighborhoods >>
       /\ initPc = "failed" =>
            /\ initPc' = "failed"
            /\ (last' # last => last'.op \notin {"codesLoaded", "neighborhoodsLoaded"})
            /\ (last.op = "initFailed" /\ last.arg = "codes" => neighborhoods' = <<>>)]_vars

\* the /neighborhoods load has just failed: the codes are loaded, no neighborhood
\* is, no /incidents request is in flight and the error message is shown
C11_Witness ==
    /\ last.op = "initFailed" /\ last.arg = "neighborhoods"
    /\ initPc = "failed"
    /\ codes # <<>> /\ neighborhoods = <<>>
    /\ incidentReqs = <<>>
    /\ loadError = InitFailedMessage

\* C12: while the base API URL is empty no request to the REST backend is in
\* flight: neither the /codes or /neighborhoods load of the initialization, nor an
\* /incidents, /new-incident or /remove-incident request.
C12_NoBackendRequestWithoutBaseUrl ==
    baseApiUrl = "" =>
        /\ initPc = "idle"
        /\ incidentReqs = <<>>
        /\ putReqs = <<>>
        /\ deleteReqs = <<>>

\* a complete form has just been submitted, after other events, with the URL dialog
\* still open
C12_Witness ==
    /\ baseApiUrl = "" /\ dialogOpen
    /\ last.op = "submitNoUrl" /\ last.arg = FALSE
    /\ events = MaxEvents
    /\ leafletBounds # StartView

\* C13: whatever list /codes returns, the type groups loadCodes builds are sorted
\* ascending by type, one group per type, and each distinct code of the list is in
\* exactly one place: in one group, once in that group's code list; the codes of a
\* group are in the order of their first occurrence in the list.
C13_GroupsSortedAndCodesOnce ==
    LET groups == incidentTypeGroups
        FirstAt(c) == CHOOSE i \in 1..Len(codes) :
                         codes[i].code = c /\ \A j \in 1..(i - 1) : codes[j].code # c
        Places(c) == {<<g, k>> \in (1..Len(groups)) \X (1..Len(codes)) :
                         k <= Len(groups[g].codes) /\ groups[g].codes[k] = c}
    IN  last.op = "codesLoaded" =>
            /\ {groups[g].type : g \in 1..Len(groups)}
                 = {codes[i].type : i \in 1..Len(codes)}
            /\ \A g, h \in 1..Len(groups) :
                    g < h => LocaleLess(groups[g].type, groups[h].type)
            /\ \A i \in 1..Len(codes) : Cardinality(Places(codes[i].code)) = 1
            /\ \A g \in 1..Len(groups) : \A k, l \in 1..Len(groups[g].codes) :
                    k < l => FirstAt(groups[g].codes[k]) < FirstAt(groups[g].codes[l])

\* the blocks of the rows the backend holds
Blocks == {BackendRows[i].block : i \in 1..Len(BackendRows)}

\* C14: selectIncident on an incident whose block has a cache entry places the
\* marker at the cached coordinate and issues no geocoding request; on a block
\* without one it issues a request and leaves the cache alone. A lookup answered
\* with a match adds one entry, the clamped result, under the block as the incident
\* has it (not under the address sent); a failed or empty lookup leaves the cache
\* as it was, so the block is looked up again. No entry is ever removed or changed.
C14_GeocodeCache ==
    [][/\ (last'.op = "selectIncident" /\ events' # events) =>
            \A r \in 1..Len(incidents) :
                (incidents[r].case_number = last'.arg /\ incidents[r].block # "") =>
                    /\ geocodeCache' = geocodeCache
                    /\ IF incidents[r].block \in DOMAIN geocodeCache
                       THEN /\ geocodeReqs' = geocodeReqs
                            /\ Len(selectedIncidentMarker') = 1
                            /\ selectedIncidentMarker'[1].lat
                                 = geocodeCache[incidents[r].block].lat
                            /\ selectedIncidentMarker'[1].lng
                                 = geocodeCache[incidents[r].block].lng
                       ELSE /\ Len(geocodeReqs') = Len(geocodeReqs) + 1
                            /\ geocodeReqs'[Len(geocodeReqs')].query
                                 = normalizeBlockAddress(incidents[r].block)
       /\ (last'.op = "blockGeocoded" /\ Len(geocodeReqs') < Len(geocodeReqs)) =>
            \E i \in 1..Len(geocodeReqs) : \E result \in GeocodeResults :
                /\ geocodeReqs' = RemoveAt(geocodeReqs, i)
                /\ DOMAIN geocodeCache' = DOMAIN geocodeCache \cup {geocodeReqs[i].block}
                /\ geocodeCache'[geocodeReqs[i].block] = clampLatLng(result[1], result[2])
       /\ (last'.op = "blockNotGeocoded" /\ Len(geocodeReqs') < Len(geocodeReqs)) =>
            /\ geocodeCache' = geocodeCache
            /\ selectedIncidentMarker' = selectedIncidentMarker
       /\ DOMAIN geocodeCache \subseteq DOMAIN geocodeCache'
       /\ DOMAIN geocodeCache' \subseteq Blocks
       /\ \A b \in DOMAIN geocodeCache : geocodeCache'[b] = geocodeCache[b]]_vars

\* an incident selected a second time, its block now cached: the marker is placed
\* from the cache and no geocoding request is in flight
C14_Witness ==
    /\ last.op = "selectIncident"
    /\ geocodeReqs = <<>>
    /\ \E r \in 1..Len(incidents) :
        /\ incidents[r].case_number = last.arg
        /\ incidents[r].block \in DOMAIN geocodeCache
        /\ normalizeBlockAddress(incidents[r].block) \notin DOMAIN geocodeCache
        /\ Len(selectedIncidentMarker) = 1
        /\ selectedIncidentMarker[1].lat = geocodeCache[incidents[r].block].lat

\* C15: categorizeCrime answers 'violent' for every incident whose type or
\* description holds a violent keyword, also when it holds property keywords as
\* well ("robbery" is in both lists); otherwise 'property' when it holds a property
\* keyword, and 'other' when it holds neither.
C15_ViolentKeywordsFirst ==
    (call.fn = "categorizeCrime" /\ call.returned) =>
        LET violent == call.args[1].violent \/ call.args[2].violent
            property == call.args[1].property \/ call.args[2].property
        IN  call.result = IF violent THEN "violent"
                          ELSE IF property THEN "property"
                          ELSE "other"

\* a theft described as an aggravated robbery: keywords of both lists, 'violent'
C15_Witness ==
    /\ call.fn = "categorizeCrime" /\ call.returned
    /\ call.args[1].s = "Theft" /\ call.args[2].s = "Aggravated Robbery"
    /\ call.result = "violent"

\* south <= lat <= north and west <= lng <= east
InBoundingBox(p) ==
    /\ BoundsSeLat <= p.lat /\ p.lat <= BoundsNwLat
    /\ BoundsNwLng <= p.lng /\ p.lng <= BoundsSeLng

C17_LoadingWhileAnyRequestInFlight ==
    incidentReqs # <<>> => isLoadingCrimes

\* C18: whenever the selected-incident marker is on the map a case is selected,
\* and when a deletion has succeeded no marker for the deleted case is on the map.
C18_MarkerImpliesSelection ==
    /\ selectedIncidentMarker # NoMarker => selectedCaseNumber # Null
    /\ last.op = "incidentDeleted" =>
            \A i \in 1..Len(selectedIncidentMarker) :
                selectedIncidentMarker[i].popup # last.arg

====
